---- MODULE Spec2Model ----
(***************************************************************************)
(* A model of torch/_dynamo/variables/torch.py:                            *)
(*   - TorchPyOperator.call_function for "cond": the speculation of the    *)
(*     two branches under a checkpoint, the comparison of their end        *)
(*     states and the merge into the enclosing trace (specification Spec); *)
(*   - TorchVariable.call_function: the ordered chain of rules that        *)
(*     classifies one intercepted call (specification SpecClassify).       *)
(***************************************************************************)
EXTENDS Integers, Sequences, FiniteSets, TLC

\* ------------------------------------------------------------------ bounds

\* Trace steps (nodes, guards, side effects) taken in one behaviour.
MaxSteps == 1
\* Conditional calls entered in one behaviour (nested or in sequence).
MaxConds == 2

\* ------------------------------------------------------------- the domain

None == "None"

\* Guards the traced code may install.
Guards == {"g1", "g2"}

\* Objects the side-effect tracker may hold: a pre-existing outer object, an
\* object constructed while tracing, and a closure cell created while tracing.
Objs == {"ext", "new", "cell"}

\* The variable class under which the tracker holds each object.
Kind(o) ==
    CASE o = "ext" -> "AttributeMutationExisting"
      [] o = "new" -> "AttributeMutationNew"
      [] o = "cell" -> "NewCellVariable"

\* Attribute values a traced store may write.
Vals == {"v1", "v2"}

\* Operand lists a conditional may be called with (args[3] unpacked): each
\* operand is a tensor variable with a proxy name, or something else.
Tensor(n) == [tensor |-> TRUE, name |-> n]
NonTensor(n) == [tensor |-> FALSE, name |-> n]
OperandLists ==
    { <<Tensor("x"), Tensor("y")>>, <<Tensor("x"), NonTensor("c")>> }

\* What a branch function may return: the variable's class, its own guards
\* and the example value of its proxy node.
Outputs ==
    { [tensor |-> TRUE, guards |-> {"g3"}, ev |-> "e1"],
      [tensor |-> TRUE, guards |-> {"g4"}, ev |-> "e2"],
      [tensor |-> FALSE, guards |-> {}, ev |-> "e1"] }

\* The shapes of the argument list of a higher-order operator call.
CondCall(name, nargs, kwargs, pred, fns, list) ==
    [name |-> name, nargs |-> nargs, kwargs |-> kwargs, pred |-> pred,
     fns |-> fns, list |-> list]
CondCalls ==
    { CondCall("cond", 4, FALSE, TRUE, TRUE, TRUE),
      CondCall("cond", 4, TRUE, TRUE, TRUE, TRUE),
      CondCall("cond", 3, FALSE, TRUE, TRUE, TRUE),
      CondCall("cond", 4, FALSE, FALSE, TRUE, TRUE),
      CondCall("cond", 4, FALSE, TRUE, FALSE, TRUE),
      CondCall("cond", 4, FALSE, TRUE, TRUE, FALSE),
      CondCall("map", 4, FALSE, TRUE, TRUE, TRUE) }

\* -------------------------------------------------------------- the state

VARIABLES
    graphs,         \* every fx.Graph created so far, by identity (index)
    cur,            \* tx.output.graph: the identity of the active fragment
    guards,         \* tx.output.guards (the guard accumulator)
    nn_modules,     \* tx.output.nn_modules: name -> registered module
    side_effects,   \* tx.output.side_effects
    timestamp,      \* tx.output.timestamp
    name_to_input,  \* tx.output.name_to_input (its keys, in order)
    graphargs,      \* tx.output.graphargs
    frames,         \* the activations of TorchPyOperator.call_function
    pc,             \* "run" | "returned" | "raised"
    ret,            \* the locals of the call that has just returned
    result,         \* the outcome of the last finished call
    steps,          \* trace steps taken
    conds           \* conditional calls entered

tvars == <<graphs, cur, guards, nn_modules, side_effects, timestamp,
           name_to_input, graphargs, frames, pc, ret, result, steps, conds>>

VARIABLES
    call,           \* the intercepted call: operator, args, kwargs
    dynamic_shapes, \* config.dynamic_shapes
    outcome,        \* what TorchVariable.call_function ended with
    symbolic_locals \* tx.symbolic_locals: local name -> traced value

cvars == <<call, dynamic_shapes, outcome, symbolic_locals>>

vars == <<tvars, cvars>>

\* A dict with no entry.
EmptyMap == [k \in {} |-> None]

\* SideEffects() with nothing tracked.
EmptySideEffects ==
    [id_to_variable |-> {}, store_attr_mutations |-> EmptyMap, keepalive |-> {}]

\* ------------------------------------------------------ external interface

\* tx.copy_graphstate(): an immutable snapshot of the trace state.
GraphState ==
    [graphargs |-> graphargs, guards |-> guards, nn_modules |-> nn_modules,
     side_effects |-> side_effects, timestamp |-> timestamp,
     name_to_input |-> name_to_input]

\* The same snapshot of the state an action is about to leave behind.
StateOf(ga, g, nn, se, ts, n2i) ==
    [graphargs |-> ga, guards |-> g, nn_modules |-> nn, side_effects |-> se,
     timestamp |-> ts, name_to_input |-> n2i]

\* tx.output.create_proxy / create_node / create_graph_input: a node.
Node(op, target, args) == [op |-> op, target |-> target, args |-> args]

\* side_effects.prune_dead_object_new(tx): drops the records of the objects
\* in dead (objects created while tracing that the roots no longer reach).
Prune(se, dead) ==
    [id_to_variable |-> se.id_to_variable \ dead,
     store_attr_mutations |->
        [o \in (DOMAIN se.store_attr_mutations) \ dead |-> se.store_attr_mutations[o]],
     keepalive |-> se.keepalive]

\* The objects pruning may find dead: the tracked ones that tracing made
\* after the checkpoint before (the roots of the enclosing frame still reach
\* the older ones).
Prunable(se, before) ==
    {o \in se.id_to_variable \ before.id_to_variable :
        Kind(o) # "AttributeMutationExisting"}

\* state.diff(other): the fields in which two states differ.
Diff(a, b) == {f \in DOMAIN a : a[f] # b[f]}

\* tx.output.register_attr_or_module(gm, name, source=src): the table with
\* gm stored under name.
RegisterAttrOrModule(table, name, gm) ==
    [n \in (DOMAIN table) \cup {name} |-> IF n = name THEN gm ELSE table[n]]

\* torch.fx.GraphModule(root, graph).
GraphModule(root, graph) == [root |-> DOMAIN root, graph |-> graph]

\* ------------------------------------------- TorchPyOperator.call_function

\* The innermost activation, and whether one of its branches is being traced.
Top == frames[Len(frames)]
InBranch == frames # <<>> /\ Top.phase \in {"true_running", "false_running"}

\* The asserts on the argument list of cond.
CondPreconditions(c) ==
    /\ ~c.kwargs
    /\ c.nargs = 4
    /\ c.pred
    /\ c.fns
    /\ c.list

\* comparable_state: the branch's end state with the parts nubbed out that
\* are not required to be equal.
Comparable(state) ==
    [state EXCEPT
        !.guards = {},
        !.side_effects =
            [id_to_variable |->
                {o \in state.side_effects.id_to_variable : Kind(o) # "NewCellVariable"},
             store_attr_mutations |->
                [o \in {k \in DOMAIN state.side_effects.store_attr_mutations :
                            Kind(k) # "AttributeMutationNew"}
                    |-> state.side_effects.store_attr_mutations[o]],
             keepalive |-> {}],
        !.nn_modules = None,
        !.timestamp = 0,
        !.name_to_input = <<>>]

\* candidate = f"cond_{name}_{i}"
Candidate(name, i) == <<"cond", name, i>>

\* add_subgraph's probe: the first candidate from i on that is not a key of
\* the sub-module table.
RECURSIVE Probe(_, _, _)
Probe(name, i, table) ==
    IF Candidate(name, i) \in DOMAIN table
    THEN Probe(name, i + 1, table)
    ELSE Candidate(name, i)

\* A registration that never probes.
AddSubgraphNoProbe(name, table) == Candidate(name, 0)

\* add_subgraph(name, gm): the name the fragment is registered under.
AddSubgraph(name, table) == Probe(name, 0, table)

\* A comparison that looks at the attribute stores only.
CmpDifferStoresOnly(true_cmp, false_cmp) ==
    true_cmp.side_effects.store_attr_mutations
        # false_cmp.side_effects.store_attr_mutations

\* if true_cmp != false_cmp
CmpDiffer(true_cmp, false_cmp) == true_cmp # false_cmp

\* A union that leaves the false branch's guards out.
MergedGuardsTrueOnly(g, true_guards, false_guards) == g \cup true_guards

\* dynamo_guards |= false_guards; dynamo_guards |= true_guards
MergedGuards(g, true_guards, false_guards) == (g \cup false_guards) \cup true_guards

\* tx.output.side_effects = true_cmp.output.side_effects
MergedSideEffects(true_b, false_b) == true_b.cmp.side_effects

\* example_value = true_r.as_proxy().node.meta["example_value"]
ExampleValue(true_b, false_b) == true_b.r.ev

\* The two sub-graph references in the wrong order.
PArgsSwapped(pred, true_node, false_node, sub_args) ==
    <<pred, false_node, true_node, [i \in 1..Len(sub_args) |-> sub_args[i].name]>>

\* p_args: the arguments of the call node that stands for the conditional.
PArgs(pred, true_node, false_node, sub_args) ==
    <<pred, true_node, false_node, [i \in 1..Len(sub_args) |-> sub_args[i].name]>>

\* A branch that leaves its own fragment the active one.
RestoredGraphKept(graph_checkpoint, graph) == graph

\* tx.output.graph = graph_checkpoint, after a branch has been captured.
RestoredGraph(graph_checkpoint, graph) == graph_checkpoint

\* A branch that leaves its end state behind.
RestoredStateKept(checkpoint, state) == state

\* tx.restore_graphstate(checkpoint), after a branch has been captured.
RestoredState(checkpoint, state) == checkpoint

\* The graph inputs speculate_branch declares: one per operand, up to the
\* first operand that is no tensor variable (where the assert fails).
RECURSIVE TensorPrefix(_)
TensorPrefix(sub_args) ==
    IF sub_args = <<>> \/ ~Head(sub_args).tensor
    THEN <<>>
    ELSE <<Head(sub_args).name>> \o TensorPrefix(Tail(sub_args))

\* A raise leaves the trace state as it is at that point.
Raise(exc) ==
    /\ pc' = "raised"
    /\ result' = exc

\* The traced code emits one call node into the active fragment.
TraceNode ==
    /\ UNCHANGED cvars
    /\ pc = "run" /\ (frames = <<>> \/ InBranch) /\ steps < MaxSteps
    /\ graphs' = [graphs EXCEPT ![cur] = Append(@, Node("call_function", "op", <<>>))]
    /\ steps' = steps + 1
    /\ UNCHANGED <<cur, guards, nn_modules, side_effects, timestamp, name_to_input,
                   graphargs, frames, pc, ret, result, conds>>

\* The traced code installs a guard.
TraceGuard(g) ==
    /\ UNCHANGED cvars
    /\ pc = "run" /\ (frames = <<>> \/ InBranch) /\ steps < MaxSteps
    /\ g \notin guards
    /\ guards' = guards \cup {g}
    /\ steps' = steps + 1
    /\ UNCHANGED <<graphs, cur, nn_modules, side_effects, timestamp, name_to_input,
                   graphargs, frames, pc, ret, result, conds>>

\* The traced code makes the side-effect tracker hold an object.
TrackObject(o) ==
    /\ UNCHANGED cvars
    /\ pc = "run" /\ (frames = <<>> \/ InBranch) /\ steps < MaxSteps
    /\ Kind(o) = "NewCellVariable"
    /\ o \notin side_effects.id_to_variable
    /\ side_effects' = [side_effects EXCEPT !.id_to_variable = @ \cup {o},
                                            !.keepalive = @ \cup {o}]
    /\ steps' = steps + 1
    /\ UNCHANGED <<graphs, cur, guards, nn_modules, timestamp, name_to_input,
                   graphargs, frames, pc, ret, result, conds>>

\* The traced code stores an attribute on an object.
StoreAttr(o, v) ==
    /\ UNCHANGED cvars
    /\ pc = "run" /\ (frames = <<>> \/ InBranch) /\ steps < MaxSteps
    /\ Kind(o) # "NewCellVariable"
    /\ Kind(o) = "AttributeMutationNew" => v = "v1"
    /\ side_effects' =
          [side_effects EXCEPT
              !.id_to_variable = @ \cup {o},
              !.keepalive = @ \cup {o},
              !.store_attr_mutations =
                  [k \in (DOMAIN @) \cup {o} |-> IF k = o THEN v ELSE @[k]]]
    /\ side_effects' # side_effects
    /\ steps' = steps + 1
    /\ UNCHANGED <<graphs, cur, guards, nn_modules, timestamp, name_to_input,
                   graphargs, frames, pc, ret, result, conds>>

\* Tracing the branch function raises.
TraceRaise(k) ==
    /\ UNCHANGED cvars
    /\ pc = "run" /\ InBranch
    /\ Raise([kind |-> k])
    /\ UNCHANGED <<graphs, cur, guards, nn_modules, side_effects, timestamp,
                   name_to_input, graphargs, frames, ret, steps, conds>>

\* call_function up to the first speculate_branch: the asserts, and the
\* checkpoint of the enclosing fragment and state.
CondEnter(c, ops) ==
    /\ UNCHANGED cvars
    /\ pc = "run" /\ (frames = <<>> \/ InBranch) /\ conds < MaxConds
    /\ conds' = conds + 1
    /\ IF c.kwargs
       THEN /\ Raise([kind |-> "AssertionError"])
            /\ UNCHANGED <<timestamp, frames>>
       ELSE IF c.name # "cond"
       THEN /\ Raise([kind |-> "Unsupported", reason |-> "PyOperator"])
            /\ UNCHANGED <<timestamp, frames>>
       ELSE IF ~CondPreconditions(c)
       THEN /\ Raise([kind |-> "AssertionError"])
            /\ UNCHANGED <<timestamp, frames>>
       ELSE /\ frames' = Append(frames,
                    [graph_checkpoint |-> cur,
                     checkpoint |-> GraphState,
                     sub_args |-> ops,
                     phase |-> "entered",
                     true_b |-> <<>>,
                     false_b |-> <<>>,
                     entry_nodes |-> graphs[cur]])
            /\ timestamp' = timestamp + 1
            /\ UNCHANGED <<pc, result>>
    /\ UNCHANGED <<graphs, cur, guards, nn_modules, side_effects, name_to_input,
                   graphargs, ret, steps>>

\* speculate_branch up to the call of the branch function: a fresh fragment
\* with one input per operand.
SpeculateSetup ==
    /\ UNCHANGED cvars
    /\ pc = "run" /\ frames # <<>> /\ Top.phase \in {"entered", "true_done"}
    /\ LET names == TensorPrefix(Top.sub_args)
           inputs == [i \in 1..Len(names) |-> Node("placeholder", names[i], <<>>)]
       IN /\ graphs' = Append(graphs, inputs)
          /\ cur' = Len(graphs) + 1
          /\ graphargs' = <<>>
          /\ name_to_input' = names
          /\ IF Len(names) = Len(Top.sub_args)
             THEN /\ frames' = [frames EXCEPT ![Len(frames)].phase =
                                    IF @ = "entered" THEN "true_running" ELSE "false_running"]
                  /\ UNCHANGED <<pc, result>>
             ELSE /\ Raise([kind |-> "AssertionError"])
                  /\ UNCHANGED frames
    /\ UNCHANGED <<guards, nn_modules, side_effects, timestamp, ret, steps, conds>>

\* speculate_branch from the return of the branch function: the output
\* node, the pruning, the end state and its comparable projection, and the
\* way back to the enclosing fragment and state.
SpeculateFinish(out, dead) ==
    /\ UNCHANGED cvars
    /\ pc = "run" /\ InBranch
    /\ dead \in {{}, Prunable(side_effects, Top.checkpoint.side_effects)}
    /\ IF ~out.tensor
       THEN /\ Raise([kind |-> "AssertionError"])
            /\ UNCHANGED <<graphs, cur, guards, nn_modules, side_effects, timestamp,
                           name_to_input, graphargs, frames>>
       ELSE LET f == Top
                state == StateOf(graphargs, guards \cup out.guards, nn_modules,
                                 Prune(side_effects, dead), timestamp, name_to_input)
                b == [r |-> out, graph |-> cur, guards |-> state.guards,
                      nn_modules |-> state.nn_modules, cmp |-> Comparable(state),
                      state |-> state]
                after == RestoredState(f.checkpoint, [state EXCEPT !.timestamp = @ + 1])
            IN /\ graphs' = [graphs EXCEPT ![cur] = Append(@, Node("output", "output", <<"out">>))]
               /\ cur' = RestoredGraph(f.graph_checkpoint, cur)
               /\ guards' = after.guards
               /\ nn_modules' = after.nn_modules
               /\ side_effects' = after.side_effects
               /\ timestamp' = after.timestamp
               /\ name_to_input' = after.name_to_input
               /\ graphargs' = after.graphargs
               /\ frames' = [frames EXCEPT ![Len(frames)] =
                     IF f.phase = "true_running"
                     THEN [f EXCEPT !.phase = "true_done", !.true_b = <<b>>]
                     ELSE [f EXCEPT !.phase = "false_done", !.false_b = <<b>>]]
               /\ UNCHANGED <<pc, result>>
    /\ UNCHANGED <<ret, steps, conds>>

\* call_function after both branches: the comparison, and on equality the
\* union of the guards, the registration of the two fragments, the adoption
\* of the side effects and the call node.
CondMerge ==
    /\ UNCHANGED cvars
    /\ pc = "run" /\ frames # <<>> /\ Top.phase = "false_done"
    /\ LET f == Top
           t == f.true_b[1]
           e == f.false_b[1]
       IN IF CmpDiffer(t.cmp, e.cmp)
          THEN /\ Raise([kind |-> "Unsupported", diff |-> Diff(t.cmp, e.cmp)])
               /\ UNCHANGED <<graphs, guards, nn_modules, side_effects, frames, ret>>
          ELSE LET true_name == AddSubgraph("true", nn_modules)
                   nn1 == RegisterAttrOrModule(nn_modules, true_name,
                                               GraphModule(t.nn_modules, t.graph))
                   false_name == AddSubgraph("false", nn1)
                   nn2 == RegisterAttrOrModule(nn1, false_name,
                                               GraphModule(e.nn_modules, e.graph))
                   true_node == Node("get_attr", true_name, <<>>)
                   false_node == Node("get_attr", false_name, <<>>)
                   cond_node == Node("call_function", "cond",
                                PArgs("pred", true_node, false_node, f.sub_args))
               IN /\ guards' = MergedGuards(guards, t.guards, e.guards)
                  /\ nn_modules' = nn2
                  /\ side_effects' = MergedSideEffects(t, e)
                  /\ graphs' = [graphs EXCEPT ![cur] = @ \o <<true_node, false_node, cond_node>>]
                  /\ frames' = SubSeq(frames, 1, Len(frames) - 1)
                  /\ ret' = <<[f EXCEPT !.phase = "returned"]>>
                  /\ pc' = "returned"
                  /\ result' = [kind |-> "graph_node", proxy |-> cond_node,
                                example_value |-> ExampleValue(t, e)]
    /\ UNCHANGED <<cur, timestamp, name_to_input, graphargs, steps, conds>>

\* The caller takes the returned variable and tracing goes on.
Resume ==
    /\ UNCHANGED cvars
    /\ pc = "returned"
    /\ pc' = "run"
    /\ ret' = <<>>
    /\ UNCHANGED <<graphs, cur, guards, nn_modules, side_effects, timestamp,
                   name_to_input, graphargs, frames, result, steps, conds>>

\* No call is being classified.
NoCall == [op |-> "none", args |-> <<>>, kwargs |-> EmptyMap]
Pending == [kind |-> "pending"]

\* The trace before anything has been recorded.
TraceInit ==
    /\ graphs = << <<>> >>
    /\ cur = 1
    /\ guards = {}
    /\ nn_modules = EmptyMap
    /\ side_effects = EmptySideEffects
    /\ timestamp = 0
    /\ name_to_input = <<>>
    /\ graphargs = <<>>
    /\ frames = <<>>
    /\ pc = "run"
    /\ ret = <<>>
    /\ result = [kind |-> "none"]
    /\ steps = 0
    /\ conds = 0

Init ==
    /\ TraceInit
    /\ call = NoCall
    /\ dynamic_shapes = FALSE
    /\ outcome = Pending
    /\ symbolic_locals = EmptyMap

Next ==
    \/ TraceNode
    \/ \E g \in Guards : TraceGuard(g)
    \/ \E o \in Objs : TrackObject(o)
    \/ \E o \in Objs, v \in Vals : StoreAttr(o, v)
    \/ \E k \in {"Unsupported", "RuntimeError"} : TraceRaise(k)
    \/ \E c \in CondCalls, ops \in OperandLists : CondEnter(c, ops)
    \/ SpeculateSetup
    \/ \E out \in Outputs, dead \in SUBSET Objs : SpeculateFinish(out, dead)
    \/ CondMerge
    \/ Resume

Spec == Init /\ [][Next]_vars

\* ------------------------------------------------ properties of the speculator

\* Both branches of the innermost conditional have been captured.
BothCaptured == pc = "run" /\ frames # <<>> /\ Top.phase = "false_done"

\* The call that has just returned.
Returned == ret[1]

\* C1: whenever the comparable projections of the two branches' end states
\* are not equal, the call ends in Unsupported carrying the diff of the two
\* states, and no graph node is returned or emitted.
C1_UnequalBranchesUnsupported ==
    [][(BothCaptured /\ Top.true_b[1].cmp # Top.false_b[1].cmp)
        => /\ pc' = "raised"
           /\ result' = [kind |-> "Unsupported",
                         diff |-> Diff(Top.true_b[1].cmp, Top.false_b[1].cmp)]
           /\ result'.diff # {}
           /\ graphs' = graphs
           /\ ret' = <<>>]_vars

\* C1's case: the true branch recorded a store on an outer object that the
\* false branch did not (or another one), and the call raised Unsupported.
C1_Witness ==
    /\ pc = "raised" /\ frames # <<>> /\ Top.phase = "false_done"
    /\ result.kind = "Unsupported"
    /\ "ext" \in DOMAIN Top.true_b[1].state.side_effects.store_attr_mutations
    /\ Top.true_b[1].state.side_effects.store_attr_mutations
         # Top.false_b[1].state.side_effects.store_attr_mutations

\* Two end states that differ in their guard sets and in nothing else (the
\* clock of the checkpoints aside).
OnlyGuardsDiffer(a, b) ==
    /\ a.guards # b.guards
    /\ [a EXCEPT !.guards = {}, !.timestamp = 0] = [b EXCEPT !.guards = {}, !.timestamp = 0]

\* C2: if the two branches' end states differ only in their guard sets, the
\* call returns a graph node, and the guard accumulator then holds every
\* guard of the true branch, every guard of the false branch and every guard
\* present before the call.
C2_GuardsUnion ==
    [][(BothCaptured /\ OnlyGuardsDiffer(Top.true_b[1].state, Top.false_b[1].state))
        => /\ pc' = "returned"
           /\ result'.kind = "graph_node"
           /\ Top.true_b[1].state.guards \subseteq guards'
           /\ Top.false_b[1].state.guards \subseteq guards'
           /\ Top.checkpoint.guards \subseteq guards']_vars

\* C2's case: a call has returned whose branches ended with different
\* guards, neither set holding the other, after a guard installed before it.
C2_Witness ==
    /\ pc = "returned"
    /\ OnlyGuardsDiffer(Returned.true_b[1].state, Returned.false_b[1].state)
    /\ ~(Returned.true_b[1].guards \subseteq Returned.false_b[1].guards)
    /\ ~(Returned.false_b[1].guards \subseteq Returned.true_b[1].guards)
    /\ Returned.checkpoint.guards # {}
    /\ Returned.true_b[1].guards \cup Returned.false_b[1].guards \subseteq guards

\* After speculate_branch has returned, the enclosing fragment is active
\* again and untouched, and the trace state is the checkpoint.
BackAtCheckpoint(f) ==
    /\ cur = f.graph_checkpoint
    /\ graphs[cur] = f.entry_nodes
    /\ GraphState = f.checkpoint

\* One branch at a time: a captured branch belongs to the innermost call,
\* and while a branch is traced the active fragment is a fragment of its
\* own, the enclosing one and the other branch's being left alone.
C3_Isolated ==
    \A i \in 1..Len(frames) :
        LET f == frames[i] IN
        /\ f.phase \in {"true_done", "false_done"} => i = Len(frames) /\ BackAtCheckpoint(f)
        /\ f.phase \in {"true_running", "false_running"} =>
              /\ graphs[f.graph_checkpoint] = f.entry_nodes
              /\ cur # f.graph_checkpoint
        /\ f.phase = "false_running" => cur # f.true_b[1].graph

\* A step that starts a branch: speculate_branch's setup.
StartsBranch ==
    /\ pc = "run" /\ frames # <<>> /\ Top.phase \in {"entered", "true_done"}
    /\ Len(frames') = Len(frames)
    /\ frames'[Len(frames)].phase \in {"true_running", "false_running"}

\* C3: the branches are traced one after the other and in isolation: when
\* speculate_branch has returned, the enclosing fragment is the active one
\* and the trace state equals the checkpoint taken before the first branch;
\* each branch starts in a fresh fragment holding only its inputs, with the
\* guards, sub-modules and side effects of the checkpoint, so the false
\* branch sees nothing the true branch produced; nested conditionals
\* included.
C3_BranchIsolation ==
    /\ []C3_Isolated
    /\ [][StartsBranch =>
            /\ guards' = Top.checkpoint.guards
            /\ nn_modules' = Top.checkpoint.nn_modules
            /\ side_effects' = Top.checkpoint.side_effects
            /\ cur' \notin DOMAIN graphs
            /\ \A k \in 1..Len(graphs'[cur']) : graphs'[cur'][k].op = "placeholder"
            /\ \A g \in DOMAIN graphs : graphs'[g] = graphs[g]]_vars

\* C3's case: the false branch runs, with the checkpoint's side effects,
\* after a true branch that had recorded a side effect of its own.
C3_Witness ==
    /\ pc = "run" /\ frames # <<>> /\ Top.phase = "false_running"
    /\ Top.true_b[1].state.side_effects # Top.checkpoint.side_effects
    /\ side_effects = Top.checkpoint.side_effects
    /\ Len(graphs[Top.true_b[1].graph]) > Len(graphs[cur])

\* C4 (as claimed): when an error raised while a branch is traced leaves
\* the call, the enclosing fragment holds the nodes it held before the call
\* and is the active fragment, and no sub-module or guard of the branch has
\* been added to the enclosing trace.
C4_AbortCommitsNothing ==
    (pc = "raised" /\ frames # <<>>) =>
        LET f == frames[1] IN
        /\ graphs[f.graph_checkpoint] = f.entry_nodes
        /\ cur = f.graph_checkpoint
        /\ nn_modules = f.checkpoint.nn_modules
        /\ guards = f.checkpoint.guards

\* C5 (as claimed): after a successful call the side-effect state of the
\* enclosing trace is the side-effect log of the true branch's end state
\* (its tracked objects and its attribute stores), and every record held
\* before the call that survives in that end state is still held.
C5_AdoptsTrueSideEffects ==
    pc = "returned" =>
        /\ side_effects.id_to_variable
             = Returned.true_b[1].state.side_effects.id_to_variable
        /\ side_effects.store_attr_mutations
             = Returned.true_b[1].state.side_effects.store_attr_mutations
        /\ (Returned.checkpoint.side_effects.id_to_variable
              \cap Returned.true_b[1].state.side_effects.id_to_variable)
             \subseteq side_effects.id_to_variable

\* A captured branch fragment: one input per operand, in operand order,
\* then the nodes of the branch's body, then one output node.
BranchGraphShape(g, sub_args) ==
    LET n == Len(sub_args) IN
    /\ Len(g) >= n + 1
    /\ \A k \in 1..n : g[k] = Node("placeholder", sub_args[k].name, <<>>)
    /\ g[Len(g)].op = "output"
    /\ \A k \in (n + 1)..(Len(g) - 1) : g[k].op \notin {"placeholder", "output"}

\* C6: a successful call adds to the enclosing fragment the two
\* get-attribute nodes of the registered fragments and one call node for the
\* conditional, with the arguments (predicate, true reference, false
\* reference, operands in order) and the example value of the true branch's
\* result, and nothing else; the nodes of a branch lie in that branch's
\* fragment, which has one input per operand and one output node.
C6_SingleCallNode ==
    pc = "returned" =>
        LET f == Returned
            t == f.true_b[1]
            e == f.false_b[1]
            g == graphs[cur]
            m == Len(f.entry_nodes)
        IN /\ cur = f.graph_checkpoint
           /\ Len(g) = m + 3
           /\ SubSeq(g, 1, m) = f.entry_nodes
           /\ g[m + 1].op = "get_attr" /\ g[m + 2].op = "get_attr"
           /\ g[m + 1].target \in DOMAIN nn_modules
           /\ g[m + 2].target \in DOMAIN nn_modules
           /\ nn_modules[g[m + 1].target].graph = t.graph
           /\ nn_modules[g[m + 2].target].graph = e.graph
           /\ g[m + 3] = Node("call_function", "cond",
                   <<"pred", g[m + 1], g[m + 2],
                     [k \in 1..Len(f.sub_args) |-> f.sub_args[k].name]>>)
           /\ result = [kind |-> "graph_node", proxy |-> g[m + 3],
                        example_value |-> t.r.ev]
           /\ BranchGraphShape(graphs[t.graph], f.sub_args)
           /\ BranchGraphShape(graphs[e.graph], f.sub_args)

\* C6's case: a call has returned whose true branch traced a node of its
\* own and whose branches returned results with different example values.
C6_Witness ==
    /\ pc = "returned"
    /\ Len(graphs[Returned.true_b[1].graph]) > Len(Returned.sub_args) + 1
    /\ Returned.true_b[1].r.ev # Returned.false_b[1].r.ev
    /\ result.kind = "graph_node"

\* The smallest i >= 0 for which cond_<label>_<i> is no key of the table.
SmallestFree(label, table, i) ==
    /\ Candidate(label, i) \notin DOMAIN table
    /\ \A k \in 0..(i - 1) : Candidate(label, k) \in DOMAIN table

\* C7: the true fragment, then the false fragment, is registered under
\* cond_<label>_<i> with i the smallest counter for which the name is not
\* yet in the enclosing sub-module table; no registration overwrites an
\* entry of the table, and distinct registered fragments have distinct
\* names.
C7_FreshSubgraphNames ==
    /\ pc = "returned" =>
          LET f == Returned
              before == f.checkpoint.nn_modules
          IN \E i, j \in 0..(2 * MaxConds) :
                LET tn == Candidate("true", i)
                    fn == Candidate("false", j)
                IN /\ SmallestFree("true", before, i)
                   /\ SmallestFree("false", before, j)
                   /\ DOMAIN nn_modules = (DOMAIN before) \cup {tn, fn}
                   /\ \A n \in DOMAIN before : nn_modules[n] = before[n]
                   /\ nn_modules[tn].graph = f.true_b[1].graph
                   /\ nn_modules[fn].graph = f.false_b[1].graph
    /\ \A n1, n2 \in DOMAIN nn_modules :
          nn_modules[n1].graph = nn_modules[n2].graph => n1 = n2

\* C7's case: a second conditional has been traced into the same enclosing
\* graph, and its fragments went under the next free names.
C7_Witness ==
    /\ pc = "returned"
    /\ frames = <<>>
    /\ DOMAIN nn_modules = {Candidate("true", 0), Candidate("false", 0),
                            Candidate("true", 1), Candidate("false", 1)}

\* -------------------------------------------- TorchVariable.call_function

\* The most positional arguments a call carries.
MaxArgs == 3

\* Traced values, by the class of the variable that wraps them.
Const(v) == [k |-> "ConstantVariable", v |-> v]
Tensor_(v) == [k |-> "TensorVariable", v |-> v]
K4 == Const("4")
NoneConst == Const("None")
U9 == [k |-> "UnspecializedPythonVariable", v |-> "9"]
T == Tensor_("t")
TU == Tensor_("unknown")
TF == [k |-> "TensorWithTFOverrideVariable", v |-> "t"]
S == [k |-> "DynamicShapeVariable", v |-> "s"]
NpList == [k |-> "ListVariable", v |-> "[np.int64(1), np.int64(2)]"]
ArgValues == {K4, U9, T, TU, TF, S, NpList}

\* The values of an out= keyword: the tensors of the locals x and y, a tensor
\* no local holds, and tuples of them.
Tmp == Tensor_("tmp")
OutPair == [k |-> "TupleVariable", v |-> "(x, y)"]
OutSingle == [k |-> "TupleVariable", v |-> "(x,)"]

\* x.items of a tuple or list variable.
Items(x) ==
    CASE x = OutPair -> <<T, TU>>
      [] x = OutSingle -> <<T>>
      [] x = NpList -> <<Const("np.int64(1)"), Const("np.int64(2)")>>
      [] OTHER -> <<>>

\* The values of the arguments after the second, which the code reads only
\* through the tests it makes on every argument.
LaterArgValues == {K4, U9, T, S}

\* x.is_python_constant()
IsPythonConstant(x) == x.k \in {"ConstantVariable", "ListVariable"}

\* isinstance(x, TensorVariable); UnspecializedPythonVariable is a subclass.
IsTensorVariable(x) == x.k \in {"TensorVariable", "UnspecializedPythonVariable"}

\* The tensor's dtype and size are known.
HasMetadata(x) == x.v # "unknown"

\* itertools.chain(args, kwargs.values())
RECURSIVE MapValues(_, _)
MapValues(m, names) ==
    IF names = {} THEN <<>>
    ELSE LET n == CHOOSE x \in names : TRUE
         IN <<m[n]>> \o MapValues(m, names \ {n})
AllValues(args, kwargs) == args \o MapValues(kwargs, DOMAIN kwargs)

\* check_constant_args(args, kwargs)
CheckConstantArgs(args, kwargs) ==
    \A i \in 1..Len(AllValues(args, kwargs)) : IsPythonConstant(AllValues(args, kwargs)[i])

\* check_unspec_python_args(args, kwargs)
IsConstOrUnspec(x) == x.k \in {"ConstantVariable", "UnspecializedPythonVariable"}
IsUnspec(x) == x.k = "UnspecializedPythonVariable"
CheckUnspecPythonArgs(args, kwargs) ==
    /\ \A i \in 1..Len(AllValues(args, kwargs)) : IsConstOrUnspec(AllValues(args, kwargs)[i])
    /\ \E i \in 1..Len(AllValues(args, kwargs)) : IsUnspec(AllValues(args, kwargs)[i])

\* specialize_args_kwargs: an unspecialized scalar becomes the constant it holds.
Specialize(x) == IF IsUnspec(x) THEN Const(x.v) ELSE x
SpecializeArgs(args) == [i \in 1..Len(args) |-> Specialize(args[i])]

\* config.constant_functions
ConstantFunctions == {"torch.jit.is_scripting"}
ConstantFunctionValue(op) == "False"

\* constant_fold_functions
ConstantFoldFunctions ==
    {"torch._assert", "torch.finfo", "torch.iinfo", "torch.is_floating_point"}

\* getattr(self.value, "__module__", None)
ModuleOf(op) ==
    CASE op \in {"math.sqrt"} -> "math"
      [] op \in {"torch.add", "torch.div", "torch.mul", "torch.addcdiv", "torch.sigmoid",
                 "torch.sort", "torch.numel", "torch.where", "torch.arange",
                 "torch.nonzero", "torch.unique", "torch.unique_consecutive",
                 "torch.repeat_interleave", "torch.is_tensor", "torch.is_complex",
                 "torch.is_floating_point", "torch.LongTensor"} -> "torch"
      [] OTHER -> "other"

\* self.value.__name__
NameOf(op) ==
    CASE op = "torch.add" -> "add"
      [] op = "torch.div" -> "div"
      [] op = "torch.mul" -> "mul"
      [] op = "math.sqrt" -> "sqrt"
      [] op = "torchvision.ops.nms" -> "nms"
      [] op = "torch.arange" -> "arange"
      [] op = "torch.repeat_interleave" -> "repeat_interleave"
      [] op = "Generator.get_state" -> "get_state"
      [] op = "Generator.set_state" -> "set_state"
      [] OTHER -> op

\* A can_constant_fold_through that looks at the allow-list only.
CanConstantFoldThroughListOnly(op) == op \in ConstantFoldFunctions

\* can_constant_fold_through
CanConstantFoldThrough(op) ==
    IF op \in ConstantFoldFunctions THEN TRUE ELSE ModuleOf(op) = "math"

\* The operator applied to the concrete values: the value it returns, or the
\* exception it raises.
Eval(op, vals, kwargs) ==
    CASE op = "math.sqrt" ->
           IF DOMAIN kwargs # {} \/ Len(vals) # 1
           THEN [raises |-> TRUE, v |-> "TypeError"]
           ELSE CASE vals[1] = "4" -> [raises |-> FALSE, v |-> "2.0"]
                  [] vals[1] = "9" -> [raises |-> FALSE, v |-> "3.0"]
                  [] OTHER -> [raises |-> TRUE, v |-> "TypeError"]
      [] OTHER -> [raises |-> TRUE, v |-> "TypeError"]

\* Python's binding of a call to a function whose named parameters are params,
\* the first nreq of them without a default, followed by **kwargs: the call is
\* refused on too many positionals, on a parameter given twice and on a
\* required parameter left out.
BindFails(params, nreq, args, kwargs) ==
    \/ Len(args) > Len(params)
    \/ \E i \in 1..Len(args) : i <= Len(params) /\ params[i] \in DOMAIN kwargs
    \/ \E i \in 1..nreq : i > Len(args) /\ params[i] \notin DOMAIN kwargs
Bound(params, args, kwargs, i) ==
    IF i <= Len(args) THEN args[i]
    ELSE IF params[i] \in DOMAIN kwargs THEN kwargs[params[i]]
    ELSE NoneConst

\* is_dynamic_shapes: "True", "False", or the exception it raises.
IsDynamicShapes(op, args, kwargs) ==
    IF \/ op \in {"torch.nonzero", "torch.unique", "torch.unique_consecutive"}
       \/ NameOf(op) \in {"nms"}
    THEN "True"
    ELSE IF op = "torch.where" /\ Len(args) + Cardinality(DOMAIN kwargs) = 1
    THEN "True"
    ELSE IF op = "torch.arange"
    THEN LET params == <<"start", "end", "step">>
         IN IF BindFails(params, 0, args, kwargs) THEN "TypeError"
            ELSE IF \A i \in 1..3 : IsPythonConstant(Bound(params, args, kwargs, i))
                 THEN "False" ELSE "True"
    ELSE IF op = "torch.repeat_interleave"
    THEN LET params == <<"input", "repeats", "dim">>
         IN IF BindFails(params, 2, args, kwargs) THEN "TypeError"
            ELSE IF IsPythonConstant(Bound(params, args, kwargs, 2))
                 THEN "False" ELSE "True"
    ELSE "False"

\* The operators a call may name.
NNModules == {"torch.nn.Softmax", "torch.nn.CrossEntropyLoss", "torch.nn.Linear"}
TypePredicates == {"torch.is_tensor", "torch.overrides.is_tensor_like"}
DtypePredicates == {"torch.is_floating_point", "torch.is_complex"}
RewriteOpsToTensorSizeMethod == {"torch._shape_as_tensor"}
NTupleOps == {"torch.nn.modules.utils._pair", "torch.nn.modules.utils._ntuple"}
Profilers == {"torch.profiler.profile"}
SetStateOps == {"Generator.set_state", "torch.random.set_rng_state"}
TensorTypeToDtype == {"torch.LongTensor"}
Ops ==
    ConstantFunctions \cup NNModules \cup TypePredicates \cup DtypePredicates
    \cup RewriteOpsToTensorSizeMethod \cup NTupleOps \cup Profilers \cup SetStateOps
    \cup TensorTypeToDtype
    \cup {"math.sqrt", "torch.numel", "torch.no_grad", "torch.enable_grad",
          "torch.set_grad_enabled", "torch.is_grad_enabled", "torch.nonzero",
          "torch.unique", "torch.unique_consecutive", "torchvision.ops.nms",
          "torch.where", "torch.arange", "torch.repeat_interleave",
          "torch.amp.autocast_mode.autocast", "torch.autograd._profiler_enabled",
          "torch.jit.annotate", "torch.backends.cudnn.is_acceptable",
          "Generator.get_state", "torch.addcdiv", "torch.add", "torch.div",
          "torch.mul", "torch.sigmoid", "torch.sort"}

\* A rule order in which the override dispatch is tested before the
\* dynamic-shape gate.
RuleOrderOverrideFirst ==
    <<"constant_functions", "constant_fold", "nn_module", "is_tensor", "is_dtype",
      "numel", "rewrite_size", "ntuple", "no_grad", "enable_grad", "set_grad_enabled",
      "is_grad_enabled", "tf_override", "dynamic_shapes", "autocast", "profiler",
      "_profiler_enabled", "jit_annotate", "cudnn", "get_state", "set_state",
      "numel_method", "addcdiv", "generic">>

\* The branches of call_function, in the order the code tests them.
RuleOrder ==
    <<"constant_functions", "constant_fold", "nn_module", "is_tensor", "is_dtype",
      "numel", "rewrite_size", "ntuple", "no_grad", "enable_grad", "set_grad_enabled",
      "is_grad_enabled", "dynamic_shapes", "tf_override", "autocast", "profiler",
      "_profiler_enabled", "jit_annotate", "cudnn", "get_state", "set_state",
      "numel_method", "addcdiv", "generic">>

\* A Python truth value as a string, so that a test is "True", "False" or the
\* name of the exception that evaluating it raises.
B(b) == IF b THEN "True" ELSE "False"

\* The test that guards a branch.
Cond(branch, op, args, kwargs, dyn) ==
    CASE branch = "constant_functions" -> B(op \in ConstantFunctions)
      [] branch = "constant_fold" ->
           B(CanConstantFoldThrough(op)
             /\ (CheckConstantArgs(args, kwargs) \/ CheckUnspecPythonArgs(args, kwargs)))
      [] branch = "nn_module" -> B(op \in NNModules)
      [] branch = "is_tensor" -> B(op \in TypePredicates)
      [] branch = "is_dtype" ->
           IF op \notin DtypePredicates THEN "False"
           ELSE IF args = <<>> THEN "IndexError"
           ELSE B(IsTensorVariable(args[1]) /\ HasMetadata(args[1]))
      [] branch = "numel" ->
           IF op # "torch.numel" THEN "False"
           ELSE IF args = <<>> THEN "IndexError"
           ELSE B(IsTensorVariable(args[1]) /\ HasMetadata(args[1]))
      [] branch = "rewrite_size" -> B(op \in RewriteOpsToTensorSizeMethod)
      [] branch = "ntuple" -> B(op \in NTupleOps)
      [] branch = "no_grad" -> B(op = "torch.no_grad")
      [] branch = "enable_grad" -> B(op = "torch.enable_grad")
      [] branch = "set_grad_enabled" -> B(op = "torch.set_grad_enabled" /\ Len(args) = 1)
      [] branch = "is_grad_enabled" -> B(op = "torch.is_grad_enabled")
      [] branch = "dynamic_shapes" ->
           IF dyn THEN "False" ELSE IsDynamicShapes(op, args, kwargs)
      [] branch = "tf_override" ->
           B(Len(args) > 0 /\ args[1].k = "TensorWithTFOverrideVariable")
      [] branch = "autocast" -> B(op = "torch.amp.autocast_mode.autocast")
      [] branch = "profiler" -> B(op \in Profilers)
      [] branch = "_profiler_enabled" -> B(op = "torch.autograd._profiler_enabled")
      [] branch = "jit_annotate" -> B(op = "torch.jit.annotate")
      [] branch = "cudnn" -> B(op = "torch.backends.cudnn.is_acceptable")
      [] branch = "get_state" -> B(op = "Generator.get_state")
      [] branch = "set_state" -> B(op \in SetStateOps)
      [] branch = "numel_method" ->
           B(op = "torch.numel" /\ Len(args) = 1 /\ IsTensorVariable(args[1])
             /\ DOMAIN kwargs = {})
      [] branch = "addcdiv" ->
           B(op = "torch.addcdiv" /\ Len(args) = 3 /\ DOMAIN kwargs = {"value"})
      [] OTHER -> "True"

\* How a call ends: a returned variable of class what, or a raised exception
\* of class what, with the items of a returned tuple, the graph nodes created
\* on the way, the argument list as the call leaves it, and the symbolic locals
\* as the call leaves them.
Returns(rule, branch, what, detail, args, locals) ==
    [kind |-> "return", rule |-> rule, branch |-> branch, what |-> what,
     detail |-> detail, items |-> <<>>, nodes |-> <<>>, args |-> args,
     locals |-> locals]
Raises(rule, branch, what, detail, args, locals) ==
    [kind |-> "raise", rule |-> rule, branch |-> branch, what |-> what,
     detail |-> detail, items |-> <<>>, nodes |-> <<>>, args |-> args,
     locals |-> locals]

\* unimplemented(msg)
Unimplemented(rule, branch, msg, args, locals) ==
    Raises(rule, branch, "Unsupported", msg, args, locals)

\* The variable a returned outcome stands for, as an argument of a later call.
ResultValue(r) == [k |-> r.what, v |-> r.detail]

\* The class wrap_fx_proxy gives the result of an operator.
WrapFxProxy(fn) ==
    CASE fn = "torch.sort" -> "TupleVariable"
      [] fn = "sym_sqrt" -> "DynamicShapeVariable"
      [] OTHER -> "TensorVariable"

\* tx.find_symbolic_locals_name(x): the local bound to x, None when there is none.
FindSymbolicLocalsName(locals, x) ==
    IF \E n \in DOMAIN locals : locals[n] = x
    THEN CHOOSE n \in DOMAIN locals : locals[n] = x
    ELSE None

\* The rule of the specification a branch implements; 0 for a branch the rules
\* do not name.
DocRule(branch) ==
    CASE branch = "constant_functions" -> 1
      [] branch = "constant_fold" -> 2
      [] branch = "nn_module" -> 3
      [] branch \in {"is_tensor", "is_dtype"} -> 4
      [] branch \in {"numel", "rewrite_size"} -> 5
      [] branch = "ntuple" -> 6
      [] branch \in {"no_grad", "enable_grad", "set_grad_enabled", "is_grad_enabled"} -> 7
      [] branch = "dynamic_shapes" -> 8
      [] branch = "tf_override" -> 9
      [] branch \in {"autocast", "profiler"} -> 10
      [] branch \in {"_profiler_enabled", "set_state"} -> 11
      [] branch = "addcdiv" -> 12
      [] branch = "generic" -> 15
      [] OTHER -> 0

\* The symbolic-scalar test and the numeric-list test of the last branch.
SymBinOps(op, args) ==
    /\ ModuleOf(op) = "torch"
    /\ NameOf(op) \in {"add", "sub", "mul", "div", "sqrt"}
    /\ \E i \in 1..Len(args) : args[i].k = "DynamicShapeVariable"
    /\ \A i \in 1..Len(args) : args[i].k \in {"ConstantVariable", "DynamicShapeVariable"}
NumpyList(op, args) ==
    /\ op \in TensorTypeToDtype
    /\ Len(args) = 1
    /\ args[1].k = "ListVariable"
    /\ IsPythonConstant(args[1])

\* x.value = x.value.item() for every numpy scalar of the list.
Coerced(x) == [x EXCEPT !.v = "[1, 2]"]

\* value.has_unpack_var_sequence(tx)
HasUnpackVarSequence(x) ==
    x.k = "ListVariable" \/ (x.k = "TensorVariable" /\ HasMetadata(x))

\* normalize_args(*args, **kwargs) of _call_cross_entropy_loss refuses the call.
NormalizeArgsFails(args, kwargs) ==
    LET params == <<"weight", "size_average", "ignore_index", "reduce", "reduction",
                    "label_smoothing">>
    IN \/ BindFails(params, 0, args, kwargs)
       \/ \E n \in DOMAIN kwargs : \A i \in 1..Len(params) : params[i] # n

\* value.unpack_var_sequence(tx): the items of a list or tuple, the rows of a
\* tensor.
UnpackVarSequence(x) ==
    IF x.k = "TensorVariable"
    THEN <<Tensor_("t[0]"), Tensor_("t[1]")>>
    ELSE Items(x)

\* The int a constant holds.
IntOf(v) == CASE v = "4" -> 4 [] v = "9" -> 9 [] OTHER -> 0

\* A handle_ntuple that tries the constant before the unpacking.
HandleNTupleConstantFirst(count, value, args, locals) ==
    IF IsPythonConstant(value)
    THEN [Returns(6, "ntuple", "ConstantVariable", "_ntuple(count)(value)", args, locals)
            EXCEPT !.items = [i \in 1..count |-> value]]
    ELSE IF HasUnpackVarSequence(value)
    THEN [Returns(6, "ntuple", "TupleVariable", "unpack_var_sequence", args, locals)
            EXCEPT !.items = UnpackVarSequence(value)]
    ELSE Unimplemented(6, "ntuple", "torch.nn.modules.utils._ntuple", args, locals)

\* handle_ntuple(value) of _call_ntuple, for the count the normalizer holds.
HandleNTuple(count, value, args, locals) ==
    IF HasUnpackVarSequence(value)
    THEN [Returns(6, "ntuple", "TupleVariable", "unpack_var_sequence", args, locals)
            EXCEPT !.items = UnpackVarSequence(value)]
    ELSE IF IsPythonConstant(value)
    THEN [Returns(6, "ntuple", "ConstantVariable", "_ntuple(count)(value)", args, locals)
            EXCEPT !.items = [i \in 1..count |-> value]]
    ELSE Unimplemented(6, "ntuple", "torch.nn.modules.utils._ntuple", args, locals)

\* _call_ntuple
CallNTuple(op, args, locals) ==
    IF args = <<>>
    THEN Raises(6, "ntuple", "IndexError", "args[0]", args, locals)
    ELSE IF op = "torch.nn.modules.utils._ntuple"
    THEN IF ~IsPythonConstant(args[1])
         THEN Raises(6, "ntuple", "NotImplementedError", "as_python_constant", args, locals)
         ELSE IF args[1].k # "ConstantVariable"
         THEN Raises(6, "ntuple", "AssertionError", "isinstance(count, int)", args, locals)
         ELSE Returns(6, "ntuple", "LambdaVariable", "handle_ntuple", args, locals)
    ELSE HandleNTuple(2, args[1], args, locals)

\* The branches of the first if/elif chain that answer without a graph node.
HandleShortcut(branch, op, args, kwargs, locals) ==
    CASE branch = "constant_functions" ->
           IF args # <<>> \/ DOMAIN kwargs # {}
           THEN Raises(1, branch, "AssertionError", "not args and not kwargs", args, locals)
           ELSE Returns(1, branch, "ConstantVariable", ConstantFunctionValue(op), args, locals)
      [] branch = "constant_fold" ->
           LET sargs == SpecializeArgs(args)
               e == Eval(op, [i \in 1..Len(sargs) |-> sargs[i].v], kwargs)
           IN IF e.raises
              THEN Raises(2, branch, e.v, "evaluation", args, locals)
              ELSE Returns(2, branch, "ConstantVariable", e.v, args, locals)
      [] branch = "nn_module" ->
           IF op = "torch.nn.Softmax"
           THEN Returns(3, branch, "LambdaVariable", "fake_softmax", args, locals)
           ELSE IF op = "torch.nn.CrossEntropyLoss"
           THEN IF NormalizeArgsFails(args, kwargs)
                THEN Raises(3, branch, "TypeError", "normalize_args", args, locals)
                ELSE Returns(3, branch, "LambdaVariable", "fake_cross_entropy_loss",
                             args, locals)
           ELSE Unimplemented(3, branch, "construct nn.Module", args, locals)
      [] branch = "is_tensor" ->
           IF Len(args) # 1
           THEN Raises(4, branch, "AssertionError", "len(args) == 1", args, locals)
           ELSE Returns(4, branch, "ConstantVariable", B(IsTensorVariable(args[1])),
                        args, locals)
      [] branch = "is_dtype" ->
           Returns(4, branch, "ConstantVariable",
                   IF op = "torch.is_floating_point" THEN "dtype.is_floating_point"
                   ELSE "dtype.is_complex", args, locals)
      [] branch = "numel" ->
           Returns(5, branch, "ConstantVariable", "product(size)", args, locals)
      [] branch = "ntuple" -> CallNTuple(op, args, locals)
      [] branch = "no_grad" -> Returns(7, branch, "GradModeVariable", "False", args, locals)
      [] branch = "enable_grad" -> Returns(7, branch, "GradModeVariable", "True", args, locals)
      [] branch = "set_grad_enabled" ->
           IF IsPythonConstant(args[1])
           THEN Returns(7, branch, "GradModeVariable", args[1].v, args, locals)
           ELSE Raises(7, branch, "NotImplementedError", "as_python_constant", args, locals)
      [] branch = "is_grad_enabled" ->
           IF args # <<>> \/ DOMAIN kwargs # {}
           THEN Raises(7, branch, "AssertionError", "not (args or kwargs)", args, locals)
           ELSE Returns(7, branch, "ConstantVariable", "is_grad_enabled", args, locals)
      [] branch = "dynamic_shapes" ->
           Unimplemented(8, branch, "dynamic shapes", args, locals)
      [] branch = "tf_override" ->
           Returns(9, branch, "TensorWithTFOverrideVariable", "inline_torch_function",
                   [args EXCEPT ![1] = Tensor_(@.v)], locals)
      [] branch = "autocast" ->
           Returns(10, branch, "AutocastModeVariable", "autocast", args, locals)
      [] branch = "profiler" ->
           Returns(10, branch, "NullContextVariable", "Profiler will be ignored", args, locals)
      [] branch = "_profiler_enabled" ->
           Unimplemented(11, branch, "torch.autograd._profiler_enabled not supported yet",
                         args, locals)
      [] branch = "jit_annotate" ->
           IF Len(args) # 2
           THEN Raises(0, branch, "AssertionError", "len(args) == 2", args, locals)
           ELSE Returns(0, branch, args[2].k, args[2].v, args, locals)
      [] branch = "cudnn" ->
           IF ~(Len(args) = 1 \/ "tensor" \in DOMAIN kwargs)
           THEN Raises(0, branch, "AssertionError", "Expect 1 input", args, locals)
           ELSE IF ~IsTensorVariable(IF Len(args) > 0 THEN args[1] ELSE kwargs["tensor"])
           THEN Raises(0, branch, "AssertionError", "Expect a tensor", args, locals)
           ELSE Returns(0, branch, "ConstantVariable", "is_acceptable", args, locals)
      [] branch = "set_state" ->
           IF Len(args) # 1
           THEN Raises(11, branch, "AssertionError", "len(args) == 1", args, locals)
           ELSE IF ~IsTensorVariable(args[1])
           THEN Raises(11, branch, "AssertionError", "isinstance(args[0], TensorVariable)",
                       args, locals)
           ELSE Unimplemented(11, branch, "TODO: make torch.random.set_rng_state work",
                              args, locals)

\* The items of the tuple that wrap_fx_proxy builds for torch.sort.
SortItems == <<Tensor_("sort.values"), Tensor_("sort.indices")>>

\* A returned outcome that created one graph node; the variable is known by
\* the node's target.
Emits(rule, branch, node, what, args, locals) ==
    [Returns(rule, branch, what, node.target, args, locals)
        EXCEPT !.nodes = <<node>>,
               !.items = IF what = "TupleVariable" THEN SortItems ELSE <<>>]

\* A rebinding that leaves the local as it was.
ReboundNothing(locals, name, value) == locals

\* tx.symbolic_locals[name] = value
Rebound(locals, name, value) == [locals EXCEPT ![name] = value]

\* The loop over the names of the out tuple, from its i-th name on: each name
\* must be a local and is rebound to the i-th item of the result.
RECURSIVE RebindItems(_, _, _)
RebindItems(r, names, i) ==
    IF i > Len(names) THEN r
    ELSE IF names[i] \notin DOMAIN r.locals
    THEN [r EXCEPT !.kind = "raise", !.what = "AssertionError",
                   !.detail = "name in tx.symbolic_locals"]
    ELSE IF i > Len(r.items)
    THEN [r EXCEPT !.kind = "raise", !.what = "IndexError",
                   !.detail = "tensor_variable.items[idx]"]
    ELSE RebindItems([r EXCEPT !.locals = Rebound(@, names[i], r.items[i])], names, i + 1)

\* The rewrite of an out= call: the local that names an out tensor is rebound
\* to the result; r is the outcome of the node that was just created.
RebindOut(r, kwargs) ==
    IF r.what = "TupleVariable"
    THEN IF kwargs["out"].k # "TupleVariable"
         THEN [r EXCEPT !.kind = "raise", !.what = "AssertionError",
                        !.detail = "isinstance(kwargs['out'], TupleVariable)"]
         ELSE LET out == Items(kwargs["out"])
                  names == [i \in 1..Len(out) |-> FindSymbolicLocalsName(r.locals, out[i])]
              IN RebindItems(r, names, 1)
    ELSE IF r.what = "TensorVariable"
    THEN IF ~IsTensorVariable(kwargs["out"])
         THEN [r EXCEPT !.kind = "raise", !.what = "AssertionError",
                        !.detail = "isinstance(kwargs['out'], TensorVariable)"]
         ELSE LET name == FindSymbolicLocalsName(r.locals, kwargs["out"])
              IN IF name \notin DOMAIN r.locals
                 THEN [r EXCEPT !.kind = "raise", !.what = "AssertionError",
                                !.detail = "name in tx.symbolic_locals"]
                 ELSE [r EXCEPT !.locals = Rebound(@, name, ResultValue(r))]
    ELSE [r EXCEPT !.kind = "raise", !.what = "Unsupported", !.detail = "out variant"]

\* The last branch: the symbolic-scalar test, the numeric-list coercion, the
\* symbolic replacement of math.sqrt, the call node and the out= rewrite.
HandleGeneric(op, args, kwargs, locals) ==
    IF SymBinOps(op, args)
    THEN Unimplemented(13, "generic", "only torch.SymInt arguments", args, locals)
    ELSE LET rule == IF NumpyList(op, args) THEN 14 ELSE 15
             args2 == IF NumpyList(op, args) THEN <<Coerced(args[1])>> ELSE args
             fn_ == IF op = "math.sqrt"
                       /\ \E i \in 1..Len(args) : args[i].k = "DynamicShapeVariable"
                    THEN "sym_sqrt" ELSE op
             r == Emits(rule, "generic", Node("call_function", fn_, args2),
                        WrapFxProxy(fn_), args2, locals)
         IN IF "out" \in DOMAIN kwargs THEN RebindOut(r, kwargs) ELSE r

\* The branches that create a graph node without further tests.
HandleNode(branch, op, args, kwargs, locals) ==
    CASE branch = "rewrite_size" ->
           IF Len(args) # 1
           THEN Raises(5, branch, "AssertionError", "len(args) == 1", args, locals)
           ELSE IF ~IsTensorVariable(args[1])
           THEN Raises(5, branch, "AssertionError", "isinstance(args[0], TensorVariable)",
                       args, locals)
           ELSE IF HasMetadata(args[1])
           THEN Returns(5, branch, "ConstantVariable", "size", args, locals)
           ELSE Emits(5, branch, Node("call_method", "size", args), "TensorVariable",
                      args, locals)
      [] branch = "get_state" ->
           Emits(0, branch, Node("call_function", "get_state_from_generator", args),
                 "TensorVariable", args, locals)
      [] branch = "numel_method" ->
           Emits(0, branch, Node("call_method", "numel", args), "TensorVariable",
                 args, locals)
      [] OTHER -> HandleGeneric(op, args, kwargs, locals)

RECURSIVE FirstMatch(_, _, _, _, _, _)

\* TorchVariable.call_function on one call.
Classify(op, args, kwargs, dyn, locals) == FirstMatch(1, op, args, kwargs, dyn, locals)

\* A decomposition of addcdiv that divides t2 by t1.
HandleAddcdivSwapped(args, kwargs, dyn, locals) ==
    LET r1 == Classify("torch.div", <<args[3], args[2]>>, EmptyMap, dyn, locals)
        r2 == Classify("torch.mul", <<ResultValue(r1), kwargs["value"]>>, EmptyMap,
                       dyn, r1.locals)
        r3 == Classify("torch.add", <<args[1], ResultValue(r2)>>, EmptyMap,
                       dyn, r2.locals)
        Outer(r, nodes) == [r EXCEPT !.rule = 12, !.branch = "addcdiv",
                                     !.nodes = nodes, !.args = args]
    IN IF r1.kind = "raise" THEN Outer(r1, r1.nodes)
       ELSE IF r2.kind = "raise" THEN Outer(r2, r1.nodes \o r2.nodes)
       ELSE Outer(r3, r1.nodes \o r2.nodes \o r3.nodes)

\* addcdiv(input, t1, t2, value=v) as add(input, mul(div(t1, t2), v)); an
\* exception of an inner call ends the outer one.
HandleAddcdiv(args, kwargs, dyn, locals) ==
    LET r1 == Classify("torch.div", Tail(args), EmptyMap, dyn, locals)
        r2 == Classify("torch.mul", <<ResultValue(r1), kwargs["value"]>>, EmptyMap,
                       dyn, r1.locals)
        r3 == Classify("torch.add", <<args[1], ResultValue(r2)>>, EmptyMap,
                       dyn, r2.locals)
        Outer(r, nodes) == [r EXCEPT !.rule = 12, !.branch = "addcdiv",
                                     !.nodes = nodes, !.args = args]
    IN IF r1.kind = "raise" THEN Outer(r1, r1.nodes)
       ELSE IF r2.kind = "raise" THEN Outer(r2, r1.nodes \o r2.nodes)
       ELSE Outer(r3, r1.nodes \o r2.nodes \o r3.nodes)

\* The if/elif chain from its i-th branch on: the first branch whose test is
\* true handles the call; a test that raises ends the call.
FirstMatch(i, op, args, kwargs, dyn, locals) ==
    LET branch == RuleOrder[i]
        c == Cond(branch, op, args, kwargs, dyn)
    IN IF c = "True"
       THEN IF branch = "addcdiv" THEN HandleAddcdiv(args, kwargs, dyn, locals)
            ELSE IF branch \in {"rewrite_size", "get_state", "numel_method", "generic"}
            THEN HandleNode(branch, op, args, kwargs, locals)
            ELSE HandleShortcut(branch, op, args, kwargs, locals)
       ELSE IF c = "False"
       THEN IF i < Len(RuleOrder)
            THEN FirstMatch(i + 1, op, args, kwargs, dyn, locals)
            ELSE [kind |-> "none", rule |-> 0, branch |-> "none", what |-> "none",
                  detail |-> "none", items |-> <<>>, nodes |-> <<>>, args |-> args,
                  locals |-> locals]
       ELSE Raises(0, branch, c, "test", args, locals)

\* The calls the classifier is asked about.
ArgLists ==
    {a \in UNION {[1..n -> ArgValues] : n \in 0..MaxArgs} :
        \A i \in 3..Len(a) : a[i] \in LaterArgValues}
KwargsMaps ==
    {EmptyMap, [n \in {"value"} |-> K4], [n \in {"out"} |-> T],
     [n \in {"out"} |-> Tmp], [n \in {"out"} |-> OutPair],
     [n \in {"out"} |-> OutSingle], [n \in {"end"} |-> S], [n \in {"repeats"} |-> S]}
Calls == [op : Ops, args : ArgLists, kwargs : KwargsMaps]

\* The interpreter hands the intercepted call to TorchVariable.call_function;
\* the nodes it creates go to the active graph.
CallFunction ==
    /\ call.op # "none"
    /\ outcome.kind = "pending"
    /\ LET r == Classify(call.op, call.args, call.kwargs, dynamic_shapes, symbolic_locals)
       IN /\ outcome' = r
          /\ graphs' = [graphs EXCEPT ![cur] = @ \o r.nodes]
          /\ call' = [call EXCEPT !.args = r.args]
          /\ symbolic_locals' = r.locals
    /\ UNCHANGED <<cur, guards, nn_modules, side_effects, timestamp, name_to_input,
                   graphargs, frames, pc, ret, result, steps, conds, dynamic_shapes>>

\* The symbolic locals of the frame the call is made in.
Locals == [n \in {"x", "y", "z"} |-> CASE n = "x" -> T [] n = "y" -> TU [] OTHER -> S]

InitC ==
    /\ TraceInit
    /\ call \in Calls
    /\ dynamic_shapes \in BOOLEAN
    /\ outcome = Pending
    /\ symbolic_locals = Locals

\* The interpreter calls the lambda that _ntuple(n) returned with one value:
\* LambdaVariable.call_function runs handle_ntuple on it.
CallLambda(value) ==
    /\ outcome.kind = "return"
    /\ outcome.what = "LambdaVariable"
    /\ outcome.detail = "handle_ntuple"
    /\ outcome' = HandleNTuple(IntOf(call.args[1].v), value, <<value>>, symbolic_locals)
    /\ call' = [op |-> "handle_ntuple", args |-> <<value>>, kwargs |-> EmptyMap]
    /\ UNCHANGED <<tvars, dynamic_shapes, symbolic_locals>>

NextC ==
    \/ CallFunction
    \/ \E value \in ArgValues : CallLambda(value)

SpecClassify == InitC /\ [][NextC]_vars

\* ----------------------------------------------- properties of the classifier

\* The step in which the classifier answers the pending call.
Classified == outcome.kind = "pending" /\ outcome'.kind # "pending"

\* The condition of rule j of the specification holds for the call.
DocCond(j, op, args, kwargs, dyn) ==
    CASE j = 13 -> SymBinOps(op, args)
      [] j = 14 -> NumpyList(op, args)
      [] j = 15 -> TRUE
      [] OTHER -> \E i \in 1..Len(RuleOrder) :
                     /\ DocRule(RuleOrder[i]) = j
                     /\ Cond(RuleOrder[i], op, args, kwargs, dyn) = "True"

\* The classes of a returned variable and of a raised exception.
ValueClasses ==
    {"ConstantVariable", "LambdaVariable", "GradModeVariable", "AutocastModeVariable",
     "NullContextVariable", "TensorVariable", "TupleVariable", "DynamicShapeVariable",
     "TensorWithTFOverrideVariable", "UnspecializedPythonVariable", "ListVariable"}
ErrorClasses ==
    {"Unsupported", "AssertionError", "TypeError", "IndexError", "NotImplementedError"}

FoldEligible(op) == op \in ConstantFoldFunctions \/ ModuleOf(op) = "math"

\* Every argument is constant, or every argument is an unspecialized scalar.
AllConstantOrAllUnspec(args, kwargs) ==
    \/ \A i \in 1..Len(AllValues(args, kwargs)) : IsPythonConstant(AllValues(args, kwargs)[i])
    \/ \A i \in 1..Len(AllValues(args, kwargs)) : IsUnspec(AllValues(args, kwargs)[i])

\* Some argument is neither a constant nor an unspecialized scalar.
SomeNeither(args, kwargs) ==
    \E i \in 1..Len(AllValues(args, kwargs)) :
        /\ ~IsPythonConstant(AllValues(args, kwargs)[i])
        /\ ~IsUnspec(AllValues(args, kwargs)[i])

\* C9: for an operator outside the fixed constant table that is fold-eligible
\* and whose arguments are all constant or all unspecialized scalars, the
\* outcome is the constant the operator gives on the concrete values and no
\* graph node is created; an exception of that evaluation leaves the
\* classifier as it is; when the operator is not fold-eligible or some argument
\* is neither, the folding rule does not handle the call.
C9_ConstantFolding ==
    [][Classified /\ call.op \notin ConstantFunctions =>
         LET e == Eval(call.op, [i \in 1..Len(call.args) |-> call.args[i].v], call.kwargs)
         IN /\ FoldEligible(call.op) /\ AllConstantOrAllUnspec(call.args, call.kwargs) =>
                 /\ outcome'.branch = "constant_fold"
                 /\ outcome'.nodes = <<>>
                 /\ graphs' = graphs
                 /\ e.raises => outcome'.kind = "raise" /\ outcome'.what = e.v
                 /\ ~e.raises => /\ outcome'.kind = "return"
                                  /\ outcome'.what = "ConstantVariable"
                                  /\ outcome'.detail = e.v
            /\ ~FoldEligible(call.op) \/ SomeNeither(call.args, call.kwargs) =>
                 outcome'.branch # "constant_fold"]_vars

\* math.sqrt of the unspecialized scalar 9 was folded to 3.0 without a node.
C9_Witness ==
    /\ call.op = "math.sqrt"
    /\ call.args = <<U9>>
    /\ outcome.kind = "return"
    /\ outcome.branch = "constant_fold"
    /\ outcome.detail = "3.0"
    /\ graphs[cur] = <<>>

\* The call is one torch accepts: arange takes at most start, end and step
\* positionally, repeat_interleave takes (repeats) or (input, repeats[, dim]),
\* and no parameter is given twice.
ArangeWellFormed(args, kwargs) ==
    /\ Len(args) <= 3
    /\ "end" \in DOMAIN kwargs => Len(args) <= 1
RepeatInterleaveWellFormed(args, kwargs) ==
    IF "repeats" \in DOMAIN kwargs THEN Len(args) <= 1 ELSE Len(args) \in 1..3

\* The value repeat_interleave takes as repeats.
RepeatsOf(args, kwargs) ==
    IF "repeats" \in DOMAIN kwargs THEN kwargs["repeats"]
    ELSE IF Len(args) = 1 THEN args[1] ELSE args[2]

\* The operator's output shape depends on data, in the words of rule 8.
DataDependentShape(op, args, kwargs) ==
    \/ op \in {"torch.nonzero", "torch.unique", "torch.unique_consecutive",
                "torchvision.ops.nms"}
    \/ op = "torch.where" /\ Len(args) + Cardinality(DOMAIN kwargs) = 1
    \/ /\ op = "torch.arange"
       /\ ArangeWellFormed(args, kwargs)
       /\ \/ \E i \in 1..Len(args) : ~IsPythonConstant(args[i])
          \/ "end" \in DOMAIN kwargs /\ ~IsPythonConstant(kwargs["end"])
    \/ /\ op = "torch.repeat_interleave"
       /\ RepeatInterleaveWellFormed(args, kwargs)
       /\ ~IsPythonConstant(RepeatsOf(args, kwargs))

\* The outcome is Unsupported for dynamic shapes.
DynamicShapesUnsupported(r) ==
    r.kind = "raise" /\ r.what = "Unsupported" /\ r.detail = "dynamic shapes"

\* C10: with dynamic-shape tracing disabled, a call that no rule 1..7 handles
\* and whose operator has a data-dependent output shape is Unsupported for
\* dynamic shapes and creates no graph node; with dynamic-shape tracing
\* enabled no call is Unsupported for dynamic shapes.
C10_DynamicShapeGate ==
    [][Classified =>
         /\ (/\ ~dynamic_shapes
             /\ \A j \in 1..7 :
                   ~DocCond(j, call.op, call.args, call.kwargs, dynamic_shapes)
             /\ DataDependentShape(call.op, call.args, call.kwargs)) =>
                 /\ DynamicShapesUnsupported(outcome')
                 /\ graphs' = graphs
         /\ dynamic_shapes => ~DynamicShapesUnsupported(outcome')]_vars

\* The targets of an out= keyword and the results that go to them, in order.
OutTargets(out) == IF out.k = "TupleVariable" THEN Items(out) ELSE <<out>>
OutResults(r) == IF r.items # <<>> THEN r.items ELSE <<ResultValue(r)>>

\* The class of the variable that the node of outcome r was wrapped in.
ResultClass(r) == WrapFxProxy(r.nodes[Len(r.nodes)].target)

\* The out= keyword has the shape of the result: a tensor for a tensor, a
\* tuple of as many tensors for a tuple.
OutMatches(r, out) ==
    \/ ResultClass(r) = "TensorVariable" /\ IsTensorVariable(out)
    \/ /\ ResultClass(r) = "TupleVariable"
       /\ out.k = "TupleVariable"
       /\ Len(Items(out)) = Len(r.items)

\* The generic rule created the node of a call that carries out=.
GenericWithOut ==
    /\ Classified
    /\ outcome'.branch = "generic"
    /\ outcome'.nodes # <<>>
    /\ "out" \in DOMAIN call.kwargs

\* C11: when a generically traced call carries an out= keyword whose targets
\* are held by locals, then after the call the local of the i-th target holds
\* the i-th result (the one result for a tensor), and every other local is as
\* it was.
C11_OutAliasing ==
    [][(/\ GenericWithOut
        /\ OutMatches(outcome', call.kwargs["out"])
        /\ \A i \in 1..Len(OutTargets(call.kwargs["out"])) :
              \E n \in DOMAIN symbolic_locals :
                  symbolic_locals[n] = OutTargets(call.kwargs["out"])[i]) =>
         LET targets == OutTargets(call.kwargs["out"])
             results == OutResults(outcome')
             IsTarget(n) == \E i \in 1..Len(targets) : symbolic_locals[n] = targets[i]
             Index(n) == CHOOSE i \in 1..Len(targets) : symbolic_locals[n] = targets[i]
         IN /\ outcome'.kind = "return"
            /\ symbolic_locals' =
                 [n \in DOMAIN symbolic_locals |->
                     IF IsTarget(n) THEN results[Index(n)] ELSE symbolic_locals[n]]]_vars

\* torch.sort(..., out=(x, y)) was traced: x holds the values, y the indices
\* and z is as it was.
C11_Witness ==
    /\ outcome.kind = "return"
    /\ call.op = "torch.sort"
    /\ "out" \in DOMAIN call.kwargs
    /\ call.kwargs["out"] = OutPair
    /\ symbolic_locals["x"] = SortItems[1]
    /\ symbolic_locals["y"] = SortItems[2]
    /\ symbolic_locals["z"] = Locals["z"]

\* The out= keyword and the result differ in shape: a tensor against a tuple,
\* or tuples of different lengths.
OutMismatches(r, out) ==
    \/ ResultClass(r) = "TupleVariable" /\ IsTensorVariable(out)
    \/ ResultClass(r) = "TensorVariable" /\ out.k = "TupleVariable"
    \/ /\ ResultClass(r) = "TupleVariable"
       /\ out.k = "TupleVariable"
       /\ Len(Items(out)) # Len(r.items)

\* C12: a generically traced call whose out= keyword differs in shape from the
\* result ends in Unsupported, never in another error and never in a return
\* that has rebound some of the names.
C12_OutMismatchUnsupported ==
    [][GenericWithOut /\ OutMismatches(outcome', call.kwargs["out"]) =>
         /\ outcome'.kind = "raise"
         /\ outcome'.what = "Unsupported"
         /\ symbolic_locals' = symbolic_locals]_vars

\* The step in which a tuple normalizer is applied to one value: _pair called
\* with one argument, or the lambda of _ntuple(n) called.
PairApplied ==
    /\ Classified
    /\ call.op = "torch.nn.modules.utils._pair"
    /\ Len(call.args) = 1
    /\ DOMAIN call.kwargs = {}
LambdaApplied ==
    /\ outcome.kind = "return"
    /\ outcome.what = "LambdaVariable"
    /\ outcome.detail = "handle_ntuple"
    /\ call'.op = "handle_ntuple"

\* What a normalizer of count n owes for value: the tuple of the value's
\* elements when it can be unpacked, else n copies of a constant, else
\* Unsupported.
Normalized(r, n, value) ==
    IF value.k = "ListVariable" \/ (value.k = "TensorVariable" /\ value.v # "unknown")
    THEN /\ r.kind = "return"
         /\ r.what = "TupleVariable"
         /\ r.items = UnpackVarSequence(value)
    ELSE IF value.k = "ConstantVariable"
    THEN /\ r.kind = "return"
         /\ r.what = "ConstantVariable"
         /\ r.items = [i \in 1..n |-> value]
    ELSE r.kind = "raise" /\ r.what = "Unsupported"

\* C13: a tuple normalizer of count n applied to one value gives the tuple of
\* the value's elements, in order, when the value can be unpacked; otherwise
\* the constant tuple of n copies when the value is a constant; otherwise
\* Unsupported. Unpacking comes before the constant case.
C13_TupleNormalizers ==
    [][/\ PairApplied => Normalized(outcome', 2, call.args[1])
       /\ LambdaApplied => Normalized(outcome', IntOf(call.args[1].v), call'.args[1])]_vars

\* _pair of the two-element list returned the tuple of its two elements.
C13_Witness ==
    /\ call.op = "torch.nn.modules.utils._pair"
    /\ call.args = <<NpList>>
    /\ outcome.kind = "return"
    /\ outcome.what = "TupleVariable"
    /\ outcome.items = Items(NpList)
    /\ Len(outcome.items) = 2

\* C14: a call of torch.autograd._profiler_enabled, torch.random.set_rng_state
\* or a Generator's set_state is Unsupported whatever its arguments are, and
\* creates no graph node.
C14_ExplicitUnsupported ==
    [][(/\ Classified
        /\ call.op \in {"torch.autograd._profiler_enabled", "torch.random.set_rng_state",
                         "Generator.set_state"}) =>
         /\ outcome'.kind = "raise"
         /\ outcome'.what = "Unsupported"
         /\ outcome'.nodes = <<>>
         /\ graphs' = graphs]_vars

\* C15: the call leaves the caller's argument list and every argument as
\* they were, except that rule 14 replaces the numpy scalars of a constant list
\* argument by native scalars.
C15_ArgumentsUnchanged ==
    [][Classified =>
         /\ outcome'.rule # 14 => call'.args = call.args
         /\ outcome'.rule = 14 =>
               /\ Len(call'.args) = Len(call.args)
               /\ \A i \in 1..Len(call.args) :
                     \/ call'.args[i] = call.args[i]
                     \/ /\ call.args[i].k = "ListVariable"
                        /\ call'.args[i] = [call.args[i] EXCEPT !.v = "[1, 2]"]]_vars

\* The call is addcdiv(a, b, c, value=v): three positionals and only value.
AddcdivForm ==
    /\ call.op = "torch.addcdiv"
    /\ Len(call.args) = 3
    /\ DOMAIN call.kwargs = {"value"}

\* No operand is a symbolic scalar or carries an override, so each of the
\* three inner calls is traced by the generic rule.
PlainOperands ==
    \A i \in 1..Len(call.args) :
        call.args[i].k \in {"TensorVariable", "UnspecializedPythonVariable",
                            "ConstantVariable", "ListVariable"}

\* The nodes of add(a, mul(div(b, c), v)), in the order they are created.
AddcdivChain(a, b, c, v) ==
    <<Node("call_function", "torch.div", <<b, c>>),
      Node("call_function", "torch.mul", <<Tensor_("torch.div"), v>>),
      Node("call_function", "torch.add", <<a, Tensor_("torch.mul")>>)>>

\* C16: addcdiv(a, b, c, value=v) is not emitted as one node but classified
\* as divide(b, c), multiply(that, v), add(a, that), in this order, so its
\* value is a + v * (b / c); addcdiv called in any other form is not
\* decomposed.
C16_AddcdivDecomposition ==
    [][Classified /\ call.op = "torch.addcdiv" =>
         /\ (AddcdivForm /\ call.args[1].k # "TensorWithTFOverrideVariable") =>
               /\ outcome'.branch = "addcdiv"
               /\ \A i \in 1..Len(outcome'.nodes) :
                     outcome'.nodes[i].target # "torch.addcdiv"
               /\ PlainOperands =>
                     /\ outcome'.kind = "return"
                     /\ outcome'.nodes = AddcdivChain(call.args[1], call.args[2],
                                                      call.args[3], call.kwargs["value"])
                     /\ graphs'[cur] = graphs[cur] \o outcome'.nodes
                     /\ ResultValue(outcome') = Tensor_("torch.add")
         /\ ~AddcdivForm =>
               /\ outcome'.branch # "addcdiv"
               /\ \A i \in 1..Len(outcome'.nodes) :
                     outcome'.nodes[i].target = "torch.addcdiv"]_vars

\* addcdiv(x, y, x, value=4) was traced as three nodes: div, mul, add.
C16_Witness ==
    /\ call.op = "torch.addcdiv"
    /\ call.args = <<T, TU, T>>
    /\ outcome.kind = "return"
    /\ outcome.branch = "addcdiv"
    /\ graphs[cur] = AddcdivChain(T, TU, T, K4)

\* ------------------------------------- the conditional that is not merged

\* The merge step is about to compare two projections that differ.
ProjectionsDiffer ==
    BothCaptured /\ Top.true_b[1].cmp # Top.false_b[1].cmp

\* C17: when the conditional ends in Unsupported because the two comparable
\* projections differ, nothing has been committed: the trace state equals
\* the checkpoint taken before the first branch, the enclosing fragment is
\* the active one and holds the nodes it held, no guard of a branch is in
\* the guard accumulator, no sub-graph module is registered, the
\* side-effect state is not replaced and no get-attribute or call node is
\* emitted.
C17_MismatchCommitsNothing ==
    [][ProjectionsDiffer =>
         /\ pc' = "raised" /\ result'.kind = "Unsupported"
         /\ StateOf(graphargs', guards', nn_modules', side_effects', timestamp',
                    name_to_input') = Top.checkpoint
         /\ cur' = Top.graph_checkpoint
         /\ graphs'[cur'] = Top.entry_nodes
         /\ guards' = Top.checkpoint.guards
         /\ DOMAIN nn_modules' = DOMAIN Top.checkpoint.nn_modules
         /\ side_effects' = Top.checkpoint.side_effects
         /\ DOMAIN graphs' = DOMAIN graphs
         /\ \A g \in DOMAIN graphs :
               \A k \in (Len(graphs[g]) + 1)..Len(graphs'[g]) :
                   graphs'[g][k].op \notin {"get_attr", "call_function"}]_vars

\* C17's case: the call raised Unsupported at the comparison after branches
\* that had installed guards of their own and ended with different side
\* effects, and the accumulator and the side effects are the checkpoint's.
C17_Witness ==
    /\ pc = "raised" /\ frames # <<>> /\ Top.phase = "false_done"
    /\ result.kind = "Unsupported"
    /\ "side_effects" \in result.diff
    /\ ~(Top.true_b[1].guards \subseteq Top.checkpoint.guards)
    /\ ~(Top.false_b[1].guards \subseteq Top.checkpoint.guards)
    /\ Top.true_b[1].state.side_effects # Top.checkpoint.side_effects
    /\ guards = Top.checkpoint.guards
    /\ side_effects = Top.checkpoint.side_effects
    /\ cur = Top.graph_checkpoint

\* ------------------------------------------ the gate answers every call

\* The argument list is one the operator itself accepts.
OperatorAccepts(op, args, kwargs) ==
    CASE op = "torch.arange" ->
           ArangeWellFormed(args, kwargs) /\ DOMAIN kwargs \subseteq {"end", "out"}
      [] op = "torch.repeat_interleave" ->
           RepeatInterleaveWellFormed(args, kwargs) /\ DOMAIN kwargs \subseteq {"repeats"}
      [] OTHER -> TRUE

\* The call ended in an error raised by the test of the dynamic-shape gate.
GateFailed(r) ==
    r.kind = "raise" /\ r.branch = "dynamic_shapes" /\ r.what # "Unsupported"

\* C18: with dynamic-shape tracing disabled, is_dynamic_shapes answers true
\* or false for every call that reaches it with arguments the operator
\* accepts (arange given only end or only keywords, repeat_interleave given
\* one argument); the call never fails with another error at the gate.
C18_GateTotal ==
    [][(/\ Classified
        /\ ~dynamic_shapes
        /\ \A j \in 1..7 :
              ~DocCond(j, call.op, call.args, call.kwargs, dynamic_shapes)
        /\ OperatorAccepts(call.op, call.args, call.kwargs)) =>
            /\ IsDynamicShapes(call.op, call.args, call.kwargs) \in {"True", "False"}
            /\ ~GateFailed(outcome')]_vars

====
